---- MODULE Spec2Model ----
(***************************************************************************)
(* Model of model_archiver/model_packaging_utils.py (ModelExportUtils):    *)
(* name validation, collision check, custom model type detection, the     *)
(* archive writer with its directory and file filters, manifest           *)
(* generation and temp file cleanup, and the packaging run that calls      *)
(* them in sequence.                                                       *)
(*                                                                         *)
(* A string is a sequence of tokens.  A token is one character ("a", ".", *)
(* "_", "LF" for the line feed, ...) or an atomic chunk of letters ("mar", *)
(* "json", ...), so str.endswith / str.startswith / == are the sequence    *)
(* operations below.  A path is a sequence of strings (its components);   *)
(* paths are absolute and canonical (os.path.abspath form, no symlinks).  *)
(***************************************************************************)
EXTENDS Naturals, Sequences, FiniteSets, TLC

VARIABLES
  nameIn,    \* argument of check_model_name_regex_or_exit
  nameOut,   \* its outcome: "unset", "ok" or "ModelArchiverError"
  clock,     \* the wall clock read by the manifest's createdOn
  built,     \* the manifests built so far: records [args, at, text]
  disk,      \* the files on disk: path -> content
  dirs,      \* the directories on disk: set of paths
  disk0,     \* the files on disk when the run(s) started
  run        \* per invocation: the packaging run's locals and position

vars == <<nameIn, nameOut, clock, built, disk, dirs, disk0, run>>

\* ------------------------------------------------------------- strings

EndsWith(s, suffix) ==
  /\ Len(s) >= Len(suffix)
  /\ SubSeq(s, Len(s) - Len(suffix) + 1, Len(s)) = suffix

StartsWith(s, prefix) ==
  /\ Len(s) >= Len(prefix)
  /\ SubSeq(s, 1, Len(prefix)) = prefix

Last(s) == s[Len(s)]

Front(s) == SubSeq(s, 1, Len(s) - 1)

\* os.path.join(directory, name)
Join(directory, name) == Append(directory, name)

\* os.path.relpath(file_path, path) for a file_path below path
RelPath(file_path, path) == SubSeq(file_path, Len(path) + 1, Len(file_path))

\* file_path lies (at any depth) below directory path
Below(file_path, path) ==
  Len(file_path) > Len(path) /\ SubSeq(file_path, 1, Len(path)) = path

\* ----------------------------------------------------------- constants

MODEL_ARCHIVE_EXTENSION == <<".", "mar">>
TAR_GZ_EXTENSION == <<".", "tar", ".", "gz">>
MANIFEST_FILE_NAME == <<"MANIFEST", ".", "json">>
MAR_INF == <<"MAR-INF">>
ONNX_TYPE == <<".", "onnx">>

\* Python's None.  No file name, model name or path handled where None may
\* occur is empty, so the empty sequence stands for it.
NONE == <<>>

\* '%s' % x and '{}'.format(x)
Format(x) == IF x = NONE THEN <<"None">> ELSE x

\* ------------------------------------------------------ name validation

\* representatives of [A-Za-z0-9]
Alnum == {"a", "Z", "7"}
\* representatives of [A-Za-z0-9_\-.]
NameChar == Alnum \cup {"_", "-", "."}
\* the alphabet names are drawn from: the above, the line feed, a space
\* and a slash
Chars == NameChar \cup {"LF", " ", "/"}

\* re.match(r'^[A-Za-z0-9][A-Za-z0-9_\-.]*$', s): the pattern is anchored
\* at the start; '$' (no re.MULTILINE) matches at the end of the string
\* and also just before a line feed that is the string's last character.
ReMatch(s) ==
  /\ Len(s) >= 1
  /\ s[1] \in Alnum
  /\ \E k \in 1..Len(s) :
       /\ \A i \in 2..k : s[i] \in NameChar
       /\ \/ k = Len(s)
          \/ k = Len(s) - 1 /\ s[Len(s)] = "LF"

check_model_name_regex_or_exit(model_name) ==
  IF ~ReMatch(model_name) THEN "ModelArchiverError" ELSE "ok"

\* ------------------------------------------------------------- filters

unwanted_dirs == {<<"__MACOSX">>, <<"__pycache__">>}

unwanted_suffixes == {<<".", "pyc">>, <<".", "DS_Store">>, <<".", "mar">>}

directory_filter_no_dot(directory, unwanted) ==
  directory \notin unwanted

directory_filter(directory, unwanted) ==
  IF directory \in unwanted THEN FALSE
  ELSE IF StartsWith(directory, <<".">>) THEN FALSE
  ELSE TRUE

\* files_to_exclude.add('MANIFEST.json') mutates the caller's set; the set
\* stays a superset of the exclusions for the rest of the walk.
file_filter_no_mar(current_file, files_to_exclude) ==
  IF current_file \in files_to_exclude \cup {MANIFEST_FILE_NAME} THEN FALSE
  ELSE IF \E s \in unwanted_suffixes \ {MODEL_ARCHIVE_EXTENSION} :
            EndsWith(current_file, s) THEN FALSE
  ELSE TRUE

file_filter(current_file, files_to_exclude) ==
  IF current_file \in files_to_exclude \cup {MANIFEST_FILE_NAME} THEN FALSE
  ELSE IF \E s \in unwanted_suffixes : EndsWith(current_file, s) THEN FALSE
  ELSE TRUE

\* ---------------------------------------------------------- file system

\* a file's content: opaque data, a finished archive (its entries), or a
\* partially written archive
Data == [kind |-> "data", fmt |-> "", entries |-> {}, by |-> 0]

Partial(who) == [kind |-> "partial", fmt |-> "", entries |-> {}, by |-> who]

Container(archive_format, entries, who) ==
  [kind |-> "archive", fmt |-> archive_format, entries |-> entries, by |-> who]

Put(fs, path, content) ==
  [q \in DOMAIN fs \cup {path} |-> IF q = path THEN content ELSE fs[q]]

Remove(fs, path) == [q \in DOMAIN fs \ {path} |-> fs[q]]

\* os.path.exists
Exists(path, fs, ds) == path \in DOMAIN fs \/ path \in ds

\* os.getcwd()
Cwd == << <<"cwd">> >>

\* os.listdir(path): the names of the immediate contents
ListDir(path, fs, ds) ==
  {Last(q) : q \in {r \in DOMAIN fs \cup ds : Len(r) = Len(path) + 1 /\ Front(r) = path}}

\* ------------------------------------------------------ collision check

get_archive_export_path_always_mar(export_file_path, model_name, archive_format) ==
  Join(export_file_path, Format(model_name) \o MODEL_ARCHIVE_EXTENSION)

get_archive_export_path(export_file_path, model_name, archive_format) ==
  Join(export_file_path,
       Format(model_name) \o (IF archive_format = "default"
                              THEN MODEL_ARCHIVE_EXTENSION
                              ELSE TAR_GZ_EXTENSION))

\* result: the error raised ("none" when it returns), the value returned
\* and the disk afterwards
check_mar_already_exists_removing(model_name, export_file_path, overwrite, archive_format, fs, ds) ==
  LET export_dir == IF export_file_path = NONE THEN Cwd ELSE export_file_path
      export_file == get_archive_export_path(export_dir, model_name, archive_format)
  IN IF Exists(export_file, fs, ds) /\ ~overwrite
     THEN [err |-> "ArchiveExists", ret |-> NONE, disk |-> fs]
     ELSE [err |-> "none", ret |-> export_dir,
           disk |-> IF export_file \in DOMAIN fs THEN Remove(fs, export_file) ELSE fs]

check_mar_already_exists(model_name, export_file_path, overwrite, archive_format, fs, ds) ==
  LET export_dir == IF export_file_path = NONE THEN Cwd ELSE export_file_path
      export_file == get_archive_export_path(export_dir, model_name, archive_format)
  IN IF Exists(export_file, fs, ds)
     THEN IF overwrite
          THEN [err |-> "none", ret |-> export_dir, disk |-> fs]
          ELSE [err |-> "ArchiveExists", ret |-> NONE, disk |-> fs]
     ELSE [err |-> "none", ret |-> export_dir, disk |-> fs]

\* ---------------------------------------------------- custom model types

\* result: the error raised and the value returned (NONE for no match)
find_unique_first(files, suffix) ==
  LET match == {f \in files : EndsWith(f, suffix)}
  IN IF match = {} THEN [err |-> "none", value |-> NONE]
     ELSE [err |-> "none", value |-> CHOOSE f \in match : TRUE]

find_unique(files, suffix) ==
  LET match == {f \in files : EndsWith(f, suffix)}
      count == Cardinality(match)
  IN IF count = 0 THEN [err |-> "none", value |-> NONE]
     ELSE IF count = 1 THEN [err |-> "none", value |-> CHOOSE f \in match : TRUE]
     ELSE [err |-> "MultipleCandidateFiles", value |-> NONE]

symbol_suffix == <<"-", "symbol", ".", "json">>
params_suffix == <<"-", "0000", ".", "params">>
signature_file == <<"signature", ".", "json">>

\* what the conversion libraries may do: a missing mxnet/onnx package, a
\* model file they cannot load or import, a failing mx.nd.save, or success
ConvOutcomes == {"dep_missing", "load_failed", "save_failed", "ok"}

\* result: the error raised, the two file names returned, the disk after
convert_onnx_model(model_path, onnx_file, model_name, fs, ds, outcome) ==
  LET symbol_file == Format(model_name) \o symbol_suffix
      params_file == Format(model_name) \o params_suffix
      signed == Put(fs, Join(model_path, signature_file), Data)
      with_symbol == Put(signed, Join(model_path, symbol_file), Data)
      with_params == Put(with_symbol, Join(model_path, params_file), Data)
      failed(e, d) == [err |-> e, symbol_file |-> NONE, params_file |-> NONE, disk |-> d]
  IN IF outcome = "dep_missing" THEN failed("ConversionDependencyMissing", fs)
     ELSE IF outcome = "load_failed" \/ Join(model_path, onnx_file) \notin DOMAIN fs
       THEN failed("ConversionFailed", fs)
     ELSE IF Join(model_path, signature_file) \notin DOMAIN fs
       THEN failed("ConversionFailed", fs)
     ELSE IF outcome = "save_failed" THEN failed("ConversionFailed", with_symbol)
     ELSE [err |-> "none", symbol_file |-> symbol_file,
           params_file |-> params_file, disk |-> with_params]

\* result: the error raised, temp_files (a list), files_to_exclude (a
\* list), the disk afterwards and whether the converter was invoked
check_custom_model_types(model_path, model_name, fs, ds, outcome) ==
  LET files_set == ListDir(model_path, fs, ds)
      onnx_file == find_unique(files_set, ONNX_TYPE)
      conv == convert_onnx_model(model_path, onnx_file.value, model_name, fs, ds, outcome)
      raised(e, d, c) == [err |-> e, temp_files |-> <<>>, files_to_exclude |-> <<>>,
                          disk |-> d, converted |-> c]
  IN IF model_path \notin ds THEN raised("OSError", fs, FALSE)
     ELSE IF onnx_file.err # "none" THEN raised(onnx_file.err, fs, FALSE)
     ELSE IF onnx_file.value = NONE THEN raised("none", fs, FALSE)
     ELSE IF conv.err # "none" THEN raised(conv.err, conv.disk, TRUE)
     ELSE [err |-> "none",
           temp_files |-> <<Join(model_path, conv.symbol_file),
                            Join(model_path, conv.params_file)>>,
           files_to_exclude |-> <<onnx_file.value>>,
           disk |-> conv.disk, converted |-> TRUE]

\* ------------------------------------------------------- archive writer

\* an entry of a container: its name in the archive and the file it was
\* read from (<<>> for the manifest, which is written from memory)
Entry(arcname, src) == [arcname |-> arcname, src |-> src]

\* os.walk(path), top-down, with directories[:] and files[:] filtered in
\* place: the files the loop body is run on
RECURSIVE walk(_, _, _, _)
walk(root, files_to_exclude, fs, ds) ==
  IF root \notin ds THEN {}
  ELSE LET directories == {d \in ds : Len(d) = Len(root) + 1 /\ Front(d) = root
                                      /\ directory_filter(Last(d), unwanted_dirs)}
           files == {f \in fs : Len(f) = Len(root) + 1 /\ Front(f) = root
                                /\ file_filter(Last(f), files_to_exclude)}
       IN files \cup UNION {walk(d, files_to_exclude, fs, ds) : d \in directories}

archive_dir_basename(path, dst, files_to_exclude, archive_format, model_name, fs, ds) ==
  LET walked == walk(path, files_to_exclude, fs, ds)
  IN IF archive_format = "tgz"
     THEN {Entry(<<model_name, Last(f)>>, f) : f \in walked \ {dst}}
     ELSE {Entry(<<Last(f)>>, f) : f \in walked}

\* dst is the path of the container being written.  tarfile's add() skips
\* a file whose absolute path is the archive's own; zipfile's write() has
\* no such check.
archive_dir(path, dst, files_to_exclude, archive_format, model_name, fs, ds) ==
  LET walked == walk(path, files_to_exclude, fs, ds)
  IN IF archive_format = "tgz"
     THEN {Entry(<<model_name>> \o RelPath(f, path), f) : f \in walked \ {dst}}
     ELSE {Entry(RelPath(f, path), f) : f \in walked}

\* result: the error raised and the disk afterwards.  io_ok: whether the
\* writes after the open succeed; who: the invocation writing
archive_exclusive(export_file, model_name, model_path, files_to_exclude, manifest, archive_format, fs, ds, io_ok, who) ==
  LET mar_path == get_archive_export_path(export_file, model_name, archive_format)
      opened == DOMAIN fs \cup {mar_path}
      excl == {files_to_exclude[i] : i \in DOMAIN files_to_exclude}
      body == archive_dir(model_path, mar_path, excl, archive_format, model_name, opened, ds)
      entries == IF archive_format = "default"
                 THEN body \cup {Entry(<<MAR_INF, MANIFEST_FILE_NAME>>, <<>>)}
                 ELSE body \cup {Entry(<<model_name, MAR_INF, MANIFEST_FILE_NAME>>, <<>>)}
  IN IF archive_format \notin {"default", "tgz"} THEN [err |-> "none", disk |-> fs]
     ELSE IF export_file \notin ds \/ mar_path \in ds \/ mar_path \in DOMAIN fs
       THEN [err |-> "IOFailure", disk |-> fs]
     ELSE IF ~io_ok THEN [err |-> "IOFailure", disk |-> Put(fs, mar_path, Partial(who))]
     ELSE [err |-> "none", disk |-> Put(fs, mar_path, Container(archive_format, entries, who))]

archive(export_file, model_name, model_path, files_to_exclude, manifest, archive_format, fs, ds, io_ok, who) ==
  LET mar_path == get_archive_export_path(export_file, model_name, archive_format)
      \* ZipFile(mar_path, 'w') / tarfile.open(mar_path, 'w:gz') create or
      \* truncate the target before the walk starts
      opened == DOMAIN fs \cup {mar_path}
      excl == {files_to_exclude[i] : i \in DOMAIN files_to_exclude}
      body == archive_dir(model_path, mar_path, excl, archive_format, model_name, opened, ds)
      entries == IF archive_format = "default"
                 THEN body \cup {Entry(<<MAR_INF, MANIFEST_FILE_NAME>>, <<>>)}
                 ELSE body \cup {Entry(<<model_name, MAR_INF, MANIFEST_FILE_NAME>>, <<>>)}
  IN IF archive_format \notin {"default", "tgz"} THEN [err |-> "none", disk |-> fs]
     ELSE IF export_file \notin ds \/ mar_path \in ds
       THEN [err |-> "IOFailure", disk |-> fs]
     ELSE IF ~io_ok THEN [err |-> "IOFailure", disk |-> Put(fs, mar_path, Partial(who))]
     ELSE [err |-> "none", disk |-> Put(fs, mar_path, Container(archive_format, entries, who))]

\* ------------------------------------------------------------- manifest

\* Manifest(runtime, model, engine, publisher): the record, with the time
\* of its construction as createdOn; absent parts are NONE
Manifest(runtime, model, engine, publisher, now) ==
  [createdOn |-> now, runtime |-> runtime, model |-> model,
   engine |-> engine, publisher |-> publisher, archiverVersion |-> <<"1", ".", "0">>]

\* str(manifest): the fields in their fixed order, absent parts left out
ManifestStr(manifest) ==
  << <<"createdOn", manifest.createdOn>>, <<"runtime", manifest.runtime>>,
     <<"model", manifest.model>> >>
  \o (IF manifest.engine = NONE THEN <<>> ELSE << <<"engine", manifest.engine>> >>)
  \o (IF manifest.publisher = NONE THEN <<>> ELSE << <<"publisher", manifest.publisher>> >>)
  \o << <<"archiverVersion", manifest.archiverVersion>> >>

generate_publisher(publisherargs) ==
  [author |-> publisherargs.author, email |-> publisherargs.email]

generate_engine(engineargs) == [engineName |-> engineargs.engine]

generate_model(modelargs) ==
  [modelName |-> modelargs.model_name, handler |-> modelargs.handler]

\* args is the argparse namespace: vars(args) is its DOMAIN.  now is the
\* clock value the Manifest constructor reads.
generate_manifest_json_stamped_runtime(args, now) ==
  LET publisher == IF "author" \in DOMAIN args /\ "email" \in DOMAIN args
                   THEN generate_publisher(args) ELSE NONE
      engine == IF "engine" \in DOMAIN args THEN generate_engine(args) ELSE NONE
      model == generate_model(args)
  IN ManifestStr(Manifest(<<args.runtime, now>>, model, engine, publisher, now))

generate_manifest_json(args, now) ==
  LET publisher == IF "author" \in DOMAIN args /\ "email" \in DOMAIN args
                   THEN generate_publisher(args) ELSE NONE
      engine == IF "engine" \in DOMAIN args THEN generate_engine(args) ELSE NONE
      model == generate_model(args)
      manifest == Manifest(args.runtime, model, engine, publisher, now)
  IN ManifestStr(manifest)

\* -------------------------------------------------------------- cleanup

\* one iteration of "for f in temp_files: os.remove(f)", at index ci:
\* the disk afterwards and whether os.remove raised (the file is missing)
clean_temp_files_step(temp_files, ci, fs) ==
  IF temp_files[ci] \in DOMAIN fs
  THEN [raised |-> FALSE, disk |-> Remove(fs, temp_files[ci])]
  ELSE [raised |-> TRUE, disk |-> fs]

\* ----------------------------------------------------------- validation

\* the error raised, "none" when it returns
validate_inputs(model_path, model_name, export_path, ds) ==
  IF check_model_name_regex_or_exit(model_name) # "ok" THEN "InvalidName"
  ELSE IF export_path = NONE THEN "TypeError"
  ELSE IF export_path \notin ds THEN "InvalidPath"
  ELSE IF model_path \notin ds THEN "InvalidPath"
  ELSE "none"

\* -------------------------------------------------------- packaging run

\* the caller's sequence: validate, collision check, custom model types,
\* archive, then cleanup whatever the outcome
package_model_next(step, err) ==
  IF step = "validate" THEN (IF err = "none" THEN "check_mar" ELSE "cleanup")
  ELSE IF step = "check_mar" THEN (IF err = "none" THEN "check_custom" ELSE "cleanup")
  ELSE IF step = "check_custom" THEN (IF err = "none" THEN "archive" ELSE "cleanup")
  ELSE IF step = "archive" THEN "cleanup"
  ELSE "done"

\* the locals of an invocation about to run step pc
Invocation(pc, model_name, model_path, export_path, overwrite, archive_format, files_to_exclude) ==
  [pc |-> pc, model_name |-> model_name, model_path |-> model_path,
   export_path |-> export_path, export_arg |-> export_path,
   overwrite |-> overwrite, fmt |-> archive_format,
   temp_files |-> <<>>, files_to_exclude |-> files_to_exclude,
   err |-> "none", ci |-> 1, ret |-> NONE, converted |-> FALSE,
   cleanup_err |-> "none", wrote |-> FALSE]

nameVars == <<nameIn, nameOut>>
manifestVars == <<clock, built>>

Validate(p) ==
  /\ run[p].pc = "validate"
  /\ LET e == validate_inputs(run[p].model_path, run[p].model_name, run[p].export_path, dirs)
     IN run' = [run EXCEPT ![p].err = e, ![p].pc = package_model_next("validate", e)]
  /\ UNCHANGED <<disk, dirs, disk0, nameVars, manifestVars>>

CheckMar(p) ==
  /\ run[p].pc = "check_mar"
  /\ LET r == check_mar_already_exists(run[p].model_name, run[p].export_path,
                                       run[p].overwrite, run[p].fmt, disk, dirs)
     IN /\ run' = [run EXCEPT ![p].err = r.err, ![p].ret = r.ret,
                              ![p].export_path = IF r.err = "none" THEN r.ret ELSE @,
                              ![p].pc = package_model_next("check_mar", r.err)]
        /\ disk' = r.disk
  /\ UNCHANGED <<dirs, disk0, nameVars, manifestVars>>

CheckCustom(p) ==
  /\ run[p].pc = "check_custom"
  /\ \E outcome \in ConvOutcomes :
       LET r == check_custom_model_types(run[p].model_path, run[p].model_name,
                                         disk, dirs, outcome)
       IN /\ run' = [run EXCEPT ![p].err = r.err,
                                ![p].temp_files = r.temp_files,
                                ![p].files_to_exclude = r.files_to_exclude,
                                ![p].converted = r.converted,
                                ![p].pc = package_model_next("check_custom", r.err)]
          /\ disk' = r.disk
  /\ UNCHANGED <<dirs, disk0, nameVars, manifestVars>>

Archive(p) ==
  /\ run[p].pc = "archive"
  /\ \E io_ok \in BOOLEAN :
       LET r == archive(run[p].export_path, run[p].model_name, run[p].model_path,
                        run[p].files_to_exclude, "manifest", run[p].fmt,
                        disk, dirs, io_ok, p)
       IN /\ run' = [run EXCEPT ![p].err = r.err,
                                ![p].wrote = (r.disk # disk),
                                ![p].pc = package_model_next("archive", r.err)]
          /\ disk' = r.disk
  /\ UNCHANGED <<dirs, disk0, nameVars, manifestVars>>

CleanStep(p) ==
  /\ run[p].pc = "cleanup"
  /\ IF run[p].ci > Len(run[p].temp_files)
     THEN /\ run' = [run EXCEPT ![p].pc = package_model_next("cleanup", "none")]
          /\ disk' = disk
     ELSE LET r == clean_temp_files_step(run[p].temp_files, run[p].ci, disk)
          IN /\ disk' = r.disk
             /\ run' = IF r.raised
                       THEN [run EXCEPT ![p].cleanup_err = "OSError",
                                        ![p].pc = package_model_next("cleanup", "OSError")]
                       ELSE [run EXCEPT ![p].ci = @ + 1]
  /\ UNCHANGED <<dirs, disk0, nameVars, manifestVars>>

\* --------------------------------------------------------------- bounds

MaxNameLen == 3   \* longest name given to the name check
MaxFiles == 2     \* most files in the source tree given to archive()
MaxClock == 1     \* last reading of the clock
MaxBuilds == 2    \* most manifests built in one behaviour

\* ------------------------------------------------------------ universes

ModelDir == << <<"src">> >>
OutDir == << <<"out">> >>
MissingDir == << <<"nowhere">> >>

GoodName == <<"a">>

Sub == <<"sub">>
DotGit == <<".", "git">>

\* directory chains below the source directory
DirChains ==
  { <<>>, <<Sub>>, <<DotGit>>, << <<"__pycache__">> >>,
    <<Sub, <<"__pycache__">> >>, << <<"__MACOSX">>, Sub>> }

FileNames ==
  { <<"h", ".", "py">>, MANIFEST_FILE_NAME, <<"x", ".", "pyc">>,
    <<".", "DS_Store">>, <<"w", ".", "onnx">>,
    GoodName \o MODEL_ARCHIVE_EXTENSION, GoodName \o TAR_GZ_EXTENSION }

TreePaths == {ModelDir \o c \o <<f>> : c \in DirChains, f \in FileNames}

\* every directory a set of files lies in, up to the top
RECURSIVE Ancestors(_)
Ancestors(path) ==
  IF Len(path) <= 1 THEN {} ELSE {Front(path)} \cup Ancestors(Front(path))

DirsOf(paths) == UNION {Ancestors(f) : f \in paths}

DataDisk(paths) == [f \in paths |-> Data]

Idle ==
  /\ nameIn = <<>> /\ nameOut = "unset"
  /\ clock = 0 /\ built = <<>>

NoRun ==
  /\ disk = DataDisk({}) /\ dirs = {} /\ disk0 = DataDisk({})
  /\ run = [p \in {} |-> 0]

\* ------------------------------------------------- the name check alone

Names == UNION {[1..k -> Chars] : k \in 0..MaxNameLen}

InitName ==
  /\ nameIn \in Names /\ nameOut = "unset"
  /\ clock = 0 /\ built = <<>>
  /\ NoRun

CheckName ==
  /\ nameOut = "unset"
  /\ nameOut' = check_model_name_regex_or_exit(nameIn)
  /\ UNCHANGED <<nameIn, manifestVars, disk, dirs, disk0, run>>

NextName == CheckName

SpecName == InitName /\ [][NextName]_vars

\* --------------------------------------------- the manifest builder alone

ArgSets ==
  { [model_name |-> GoodName, handler |-> <<"h">>, runtime |-> r] : r \in {"python", "python3"} }
  \cup { [model_name |-> GoodName, handler |-> <<"h">>, runtime |-> r, engine |-> "MXNet"]
         : r \in {"python", "python3"} }
  \cup { [model_name |-> GoodName, handler |-> <<"h">>, runtime |-> r,
          author |-> "me", email |-> "me@x"] : r \in {"python", "python3"} }
  \cup { [model_name |-> GoodName, handler |-> <<"h">>, runtime |-> "python",
          engine |-> "MXNet", author |-> "me"],
         [model_name |-> GoodName, handler |-> <<"h">>, runtime |-> "python",
          engine |-> "MXNet", author |-> "me", email |-> "me@x"] }

InitManifest ==
  /\ Idle
  /\ NoRun

Tick ==
  /\ clock < MaxClock
  /\ clock' = clock + 1
  /\ UNCHANGED <<built, nameVars, disk, dirs, disk0, run>>

Build ==
  /\ Len(built) < MaxBuilds
  /\ \E args \in ArgSets :
       built' = Append(built, [args |-> args, at |-> clock,
                               text |-> generate_manifest_json(args, clock)])
  /\ UNCHANGED <<clock, nameVars, disk, dirs, disk0, run>>

NextManifest == Tick \/ Build

SpecManifest == InitManifest /\ [][NextManifest]_vars

\* ------------------------------------------------------ archive() alone

\* the subsets of S with at most k elements
RECURSIVE UpTo(_, _)
UpTo(S, k) ==
  IF k = 0 THEN {{}}
  ELSE LET smaller == UpTo(S, k - 1)
       IN smaller \cup {t \cup {x} : t \in smaller, x \in S}

Trees == UpTo(TreePaths, MaxFiles)

\* the export directory: the source directory itself, a walked
\* subdirectory of it, a directory elsewhere, a directory that is missing
ExportPlacements == {ModelDir, ModelDir \o <<Sub>>, OutDir, MissingDir}

\* the two formats and one the code does not know
Formats == {"default", "tgz", "zip"}

Exclusions == {<<>>, << <<"w", ".", "onnx">> >>}

InitArchive ==
  /\ Idle
  /\ \E T \in Trees, export \in ExportPlacements, f \in Formats, E \in Exclusions :
       /\ disk = DataDisk(T)
       /\ dirs = DirsOf(T) \cup {ModelDir, OutDir, Cwd} \cup ({export} \ {MissingDir})
       /\ run = [p \in {1} |-> Invocation("archive", GoodName, ModelDir, export, FALSE, f, E)]
  /\ disk0 = disk

NextArchive == \E p \in DOMAIN run : Archive(p)

SpecArchive == InitArchive /\ [][NextArchive]_vars

\* ------------------------------------- check_mar_already_exists() alone

CheckMarFiles ==
  {Join(d, GoodName \o e) : d \in {Cwd, OutDir},
                            e \in {MODEL_ARCHIVE_EXTENSION, TAR_GZ_EXTENSION}}

InitCheckMar ==
  /\ Idle
  /\ \E T \in SUBSET CheckMarFiles, export \in {NONE, OutDir, Cwd},
        n \in {GoodName, <<"Z">>}, o \in BOOLEAN, f \in Formats :
       /\ disk = DataDisk(T)
       /\ run = [p \in {1} |-> Invocation("check_mar", n, ModelDir, export, o, f, <<>>)]
  /\ dirs = {ModelDir, OutDir, Cwd}
  /\ disk0 = disk

NextCheckMar == \E p \in DOMAIN run : CheckMar(p)

SpecCheckMar == InitCheckMar /\ [][NextCheckMar]_vars

\* ------------------------------------- check_custom_model_types() alone

CustomFiles ==
  { Join(ModelDir, <<"w", ".", "onnx">>), Join(ModelDir, <<"v", ".", "onnx">>),
    Join(ModelDir, signature_file), Join(ModelDir, <<"h", ".", "py">>),
    ModelDir \o <<Sub, <<"u", ".", "onnx">> >> }

\* a directory whose name ends in .onnx
OnnxDir == Join(ModelDir, <<"d", ".", "onnx">>)

InitCustom ==
  /\ Idle
  /\ \E T \in SUBSET CustomFiles, D \in SUBSET {OnnxDir}, n \in {GoodName, NONE} :
       /\ disk = DataDisk(T)
       /\ dirs = DirsOf(T) \cup {ModelDir} \cup D
       /\ run = [p \in {1} |-> Invocation("check_custom", n, ModelDir, OutDir, FALSE, "default", <<>>)]
  /\ disk0 = disk

NextCustom == \E p \in DOMAIN run : CheckCustom(p)

SpecCustom == InitCustom /\ [][NextCustom]_vars

\* --------------------------------------------------- one packaging run

RunFiles ==
  { Join(ModelDir, <<"w", ".", "onnx">>), Join(ModelDir, <<"v", ".", "onnx">>),
    Join(ModelDir, signature_file),
    Join(OutDir, GoodName \o MODEL_ARCHIVE_EXTENSION),
    Join(OutDir, GoodName \o TAR_GZ_EXTENSION),
    Join(ModelDir, GoodName \o TAR_GZ_EXTENSION) }

RunNames == {GoodName, <<" ">>, <<"a", "LF">>}

InitRun ==
  /\ Idle
  /\ \E T \in SUBSET RunFiles, n \in RunNames, export \in {OutDir, ModelDir, MissingDir},
        mp \in {ModelDir, MissingDir}, o \in BOOLEAN, f \in {"default", "tgz"} :
       /\ disk = DataDisk(T)
       /\ run = [p \in {1} |-> Invocation("validate", n, mp, export, o, f, <<>>)]
  /\ dirs = {ModelDir, OutDir, Cwd}
  /\ disk0 = disk

NextRun ==
  \/ \E p \in DOMAIN run : Validate(p)
  \/ \E p \in DOMAIN run : CheckMar(p)
  \/ \E p \in DOMAIN run : CheckCustom(p)
  \/ \E p \in DOMAIN run : Archive(p)
  \/ \E p \in DOMAIN run : CleanStep(p)

SpecRun == InitRun /\ [][NextRun]_vars

\* ------------------------------------------- two concurrent invocations

ConcFiles ==
  { Join(ModelDir, <<"w", ".", "onnx">>), Join(ModelDir, signature_file),
    Join(OutDir, GoodName \o MODEL_ARCHIVE_EXTENSION) }

\* two processes packaging the same model directory under the same name
\* into the same export directory
InitConc ==
  /\ Idle
  /\ \E T \in SUBSET ConcFiles, o \in [{1, 2} -> BOOLEAN], f \in [{1, 2} -> {"default", "tgz"}] :
       /\ disk = DataDisk(T)
       /\ run = [p \in {1, 2} |-> Invocation("validate", GoodName, ModelDir, OutDir, o[p], f[p], <<>>)]
  /\ dirs = {ModelDir, OutDir, Cwd}
  /\ disk0 = disk

NextConc ==
  \/ \E p \in DOMAIN run : Validate(p)
  \/ \E p \in DOMAIN run : CheckMar(p)
  \/ \E p \in DOMAIN run : CheckCustom(p)
  \/ \E p \in DOMAIN run : Archive(p)
  \/ \E p \in DOMAIN run : CleanStep(p)

SpecConc == InitConc /\ [][NextConc]_vars

\* =============================================================== claims

\* the target path as the specification states it
StatedTarget(export_dir, name, archive_format) ==
  Join(export_dir, name \o (IF archive_format = "default"
                            THEN <<".", "mar">> ELSE <<".", "tar", ".", "gz">>))

\* invocation p's archive() has returned, for one of the two formats,
\* having written a complete container
Archived(p) ==
  /\ run[p].pc # "archive" /\ run[p].err = "none" /\ run[p].wrote
  /\ run[p].fmt \in {"default", "tgz"}

TargetOf(p) == StatedTarget(run[p].export_path, run[p].model_name, run[p].fmt)

EntriesOf(p) == disk[TargetOf(p)].entries

ReservedManifest(p) ==
  (IF run[p].fmt = "tgz" THEN <<run[p].model_name>> ELSE <<>>)
  \o <<MAR_INF, MANIFEST_FILE_NAME>>

\* ------------------------------------------------------------------ C1

\* C1: the container archive() produces holds no source-tree file named
\* MANIFEST.json, none whose name ends in .pyc, .DS_Store or .mar, and
\* none below a directory named __MACOSX or __pycache__ or starting with
\* '.', at any depth; its only MANIFEST.json entry is the generated
\* manifest at the reserved path.
C1_NoUnwantedEntry ==
  \A p \in DOMAIN run : Archived(p) =>
    \A e \in EntriesOf(p) :
      IF e.src = <<>> THEN e.arcname = ReservedManifest(p)
      ELSE LET rel == RelPath(e.src, run[p].model_path)
           IN /\ Last(rel) # <<"MANIFEST", ".", "json">>
              /\ Last(e.arcname) # <<"MANIFEST", ".", "json">>
              /\ ~EndsWith(Last(rel), <<".", "pyc">>)
              /\ ~EndsWith(Last(rel), <<".", "DS_Store">>)
              /\ ~EndsWith(Last(rel), <<".", "mar">>)
              /\ \A i \in 1..(Len(rel) - 1) :
                   /\ rel[i] \notin {<<"__MACOSX">>, <<"__pycache__">>}
                   /\ rel[i][1] # "."

\* a tree with a file below __pycache__ two levels down was archived,
\* and the container has a source file in it
C1_Witness ==
  \E p \in DOMAIN run :
    /\ Archived(p)
    /\ \E f \in DOMAIN disk0 :
         LET rel == RelPath(f, run[p].model_path)
         IN Len(rel) = 3 /\ rel[2] = <<"__pycache__">>
    /\ \E e \in EntriesOf(p) : e.src # <<>>

\* ------------------------------------------------------------------ C2

\* file f of the source tree passes the directory filter at every level
\* and the file filter with exclusion set E
PassesFilters(f, model_path, E) ==
  /\ Below(f, model_path)
  /\ LET rel == RelPath(f, model_path)
     IN /\ \A i \in 1..(Len(rel) - 1) : directory_filter(rel[i], unwanted_dirs)
        /\ file_filter(Last(rel), E)

ExclusionSet(p) == {run[p].files_to_exclude[i] : i \in DOMAIN run[p].files_to_exclude}

ExpectedNames(p, files) ==
  LET prefix == IF run[p].fmt = "tgz" THEN <<run[p].model_name>> ELSE <<>>
  IN {prefix \o RelPath(f, run[p].model_path) :
        f \in {g \in files : PassesFilters(g, run[p].model_path, ExclusionSet(p))}}
     \cup {prefix \o <<MAR_INF, MANIFEST_FILE_NAME>>}

NamingPolicy(s) ==
  /\ Len(s) >= 1
  /\ s[1] \in Alnum
  /\ \A i \in 2..Len(s) : s[i] \in NameChar

\* C3: the name check accepts a name if and only if the name meets the
\* naming policy.
C3_AcceptsIffPolicy ==
  nameOut # "unset" => (nameOut = "ok" <=> NamingPolicy(nameIn))

\* ------------------------------------------------------------------ C4

Checked(p) == run[p].pc # "check_mar" /\ run[p].fmt \in {"default", "tgz"}

C4Dir(p) == IF run[p].export_arg = NONE THEN Cwd ELSE run[p].export_arg

C4Outcome(p, returned) ==
  LET target == StatedTarget(C4Dir(p), run[p].model_name, run[p].fmt)
  IN /\ disk = disk0
     /\ IF target \in DOMAIN disk0 /\ ~run[p].overwrite
        THEN run[p].err = "ArchiveExists"
        ELSE run[p].err = "none" /\ run[p].ret = returned

\* C4 as stated: the target is <export_dir>/<name>.mar or .tar.gz; with a
\* file there and overwrite false the check fails and changes nothing on
\* disk; otherwise it returns the export path it was given.
C4_ReturnsGivenPath ==
  \A p \in DOMAIN run : Checked(p) => C4Outcome(p, run[p].export_arg)

\* C4 amended: the same, where the export directory is the current
\* working directory when no export path (None) was given, and that
\* directory is what is returned.
C4_ReturnsResolvedPath ==
  \A p \in DOMAIN run : Checked(p) => C4Outcome(p, C4Dir(p))

\* no export path given, a file at <cwd>/<name>.tar.gz, overwrite set
C4_Witness ==
  \E p \in DOMAIN run :
    /\ Checked(p) /\ run[p].export_arg = NONE /\ run[p].overwrite
    /\ run[p].fmt = "tgz"
    /\ StatedTarget(Cwd, run[p].model_name, "tgz") \in DOMAIN disk0
    /\ run[p].err = "none"

\* ------------------------------------------------------------------ C5

Resolved(p) == run[p].pc # "check_custom"

OnnxNames(p) ==
  {n \in ListDir(run[p].model_path, disk0, dirs) : EndsWith(n, <<".", "onnx">>)}

NothingReturned(p) == run[p].temp_files = <<>> /\ run[p].files_to_exclude = <<>>

OneConverted(p) ==
  /\ run[p].err = "none"
  /\ Len(run[p].files_to_exclude) = 1
  /\ run[p].files_to_exclude[1] \in OnnxNames(p)
  /\ Len(run[p].temp_files) = 2
  /\ run[p].temp_files[1] # run[p].temp_files[2]
  /\ \A i \in 1..2 : Front(run[p].temp_files[i]) = run[p].model_path

ZeroOrMany(p) ==
  /\ Cardinality(OnnxNames(p)) = 0 =>
       run[p].err = "none" /\ NothingReturned(p) /\ ~run[p].converted
  /\ Cardinality(OnnxNames(p)) >= 2 =>
       run[p].err = "MultipleCandidateFiles" /\ NothingReturned(p) /\ ~run[p].converted

\* C5 as stated: one .onnx name gives one excluded original and two
\* temporary files inside the source directory; two or more fail without
\* the converter being invoked; none gives two empty collections.
C5_OneZeroMany ==
  \A p \in DOMAIN run : Resolved(p) =>
    /\ ZeroOrMany(p)
    /\ Cardinality(OnnxNames(p)) = 1 => OneConverted(p)

\* C5 amended: with one .onnx name the converter is invoked; when it
\* succeeds the result is as stated and the two files exist, when it
\* fails its error is raised and nothing is returned.
C5_OneZeroManyConverterMayFail ==
  \A p \in DOMAIN run : Resolved(p) =>
    /\ ZeroOrMany(p)
    /\ Cardinality(OnnxNames(p)) = 1 =>
         /\ run[p].converted
         /\ IF run[p].err = "none"
            THEN OneConverted(p) /\ \A i \in 1..2 : run[p].temp_files[i] \in DOMAIN disk
            ELSE /\ run[p].err \in {"ConversionDependencyMissing", "ConversionFailed"}
                 /\ NothingReturned(p)

C5_Witness ==
  \E p \in DOMAIN run :
    /\ Resolved(p) /\ Cardinality(OnnxNames(p)) = 1
    /\ run[p].err = "none" /\ Len(run[p].temp_files) = 2

\* ------------------------------------------------------------------ C6

ValidationErrors == {"InvalidName", "InvalidPath", "MultipleCandidateFiles"}

\* C6: a run that fails with an invalid-name, invalid-path or
\* multiple-candidate-files error leaves the target archive path as it
\* was when the run started: same existence, same content.
C6_NoOutputOnValidationError ==
  \A p \in DOMAIN run : run[p].err \in ValidationErrors =>
    LET target == StatedTarget(run[p].export_arg, run[p].model_name, run[p].fmt)
    IN /\ target \in DOMAIN disk <=> target \in DOMAIN disk0
       /\ target \in DOMAIN disk => disk[target] = disk0[target]

\* a run over an existing archive, with overwrite set, ended on two
\* candidate files after passing the collision check
C6_Witness ==
  \E p \in DOMAIN run :
    /\ run[p].pc = "done" /\ run[p].err = "MultipleCandidateFiles"
    /\ run[p].overwrite
    /\ StatedTarget(run[p].export_arg, run[p].model_name, run[p].fmt) \in DOMAIN disk0

\* ------------------------------------------------------------------ C7

\* C7: when a run that produced temporary files ends, every one of its
\* temporary files has been deleted.
C7_TempFilesGoneAtEnd ==
  [][\A p \in DOMAIN run :
       (run[p].pc = "cleanup" /\ run'[p].pc = "done" /\ run[p].temp_files # <<>>)
       => \A i \in DOMAIN run[p].temp_files : run[p].temp_files[i] \notin DOMAIN disk']_vars

\* ------------------------------------------------------------------ C9

\* C9: nothing stands between the collision check and the write: every
\* invocation that got past the checks writes the target in archive(),
\* whatever is at the target by then.
C9_PassedCheckAlwaysWrites ==
  \A p \in DOMAIN run :
    (run[p].pc \in {"cleanup", "done"} /\ run[p].err \in {"none", "IOFailure"})
    => run[p].wrote

\* both invocations, overwrite false, no file at the shared target at the
\* start: both passed the collision check, both wrote a complete archive,
\* and the first one's archive was replaced by the second one's
C9_Witness ==
  /\ DOMAIN run = {1, 2}
  /\ run[1].fmt = run[2].fmt
  /\ \A p \in {1, 2} :
       /\ ~run[p].overwrite
       /\ run[p].ret = run[p].export_arg
       /\ Archived(p)
       /\ TargetOf(p) \notin DOMAIN disk0
  /\ disk[TargetOf(1)].by = 2

\* ------------------------------------------------------------------ C8

KeepField(kv) == kv[1] # "createdOn"

WithoutCreatedOn(text) == SelectSeq(text, KeepField)

====
